---- MODULE Spec2Model ----
(***************************************************************************)
(* A model of grok4_cli.py: module start-up, the request dispatcher        *)
(* grok_api_call, and the six click commands, as one state machine for a   *)
(* single process invocation.                                              *)
(*                                                                         *)
(* Text (prompts, file contents, responses) is a sequence of symbols; a    *)
(* symbol is a one-character string, or a literal chunk of an f-string     *)
(* kept whole.  The empty text is << >>.  Path names are atomic strings,   *)
(* the empty path is "".                                                   *)
(***************************************************************************)
EXTENDS Naturals, Sequences, FiniteSets

VARIABLES
    pc,        \* where the process is: start, exit1, main_loop, sleeping,
               \* imported, cli, chat, workflow, done, crashed
    platform,  \* platform.system()
    isMain,    \* __name__ == "__main__"
    hasKey,    \* XAI_API_KEY is set and non-empty
    bgTask,    \* main_loop() was scheduled with ensure_future
    files,     \* the filesystem: path -> [exists, content]
    lines,     \* chat: number of input lines read so far
    steps,     \* automate_workflow: the loaded list of steps
    i,         \* automate_workflow: number of steps examined so far
    last       \* what the latest handler run (or loop iteration) did

vars == <<pc, platform, isMain, hasKey, bgTask, files, lines, steps, i, last>>

(***************************************************************************)
(* Bounds of the model.                                                    *)
(***************************************************************************)
\* chat: input lines read in one session
MaxLines == 2
\* automate_workflow: steps in one workflow file
MaxSteps == 2

(***************************************************************************)
(* Values.                                                                 *)
(***************************************************************************)
\* A Python value a response can be: None, a str, or a non-zero number.
None == [t |-> "none", s |-> << >>]
Str(s) == [t |-> "str", s |-> s]
Num == [t |-> "num", s |-> << >>]

\* Python truthiness, as in `if response:` and `not prompt`.
TruthyAlways(v) == TRUE
Truthy(v) == \/ v.t = "num"
             \/ v.t = "str" /\ v.s # << >>

\* An optional path: None (not given), or a str.
NoPath == [given |-> FALSE, name |-> ""]
Path(p) == [given |-> TRUE, name |-> p]

\* `a or b` on an optional path and a path name.
OrElse(opt, name) == IF opt.given /\ opt.name # "" THEN opt.name ELSE name

\* str.lower(), on the letters the inputs use.
LowerChar(c) ==
    CASE c = "E" -> "e"
      [] c = "X" -> "x"
      [] c = "I" -> "i"
      [] c = "T" -> "t"
      [] c = "H" -> "h"
      [] OTHER -> c
Lower(s) == [k \in 1..Len(s) |-> LowerChar(s[k])]

ExitWord == <<"e", "x", "i", "t">>

(***************************************************************************)
(* The HTTP round trip and the dispatcher.                                 *)
(***************************************************************************)
ResponseText == <<"n", "e", "w">>

\* What requests.post / raise_for_status / response.json() can yield.
HttpOutcomes ==
    { [kind |-> "network_error", has |-> FALSE, value |-> None],
      [kind |-> "http_error",    has |-> FALSE, value |-> None],
      [kind |-> "bad_json",      has |-> FALSE, value |-> None],
      [kind |-> "non_object",    has |-> FALSE, value |-> None],
      [kind |-> "object",        has |-> FALSE, value |-> None],
      [kind |-> "object",        has |-> TRUE,  value |-> Str(ResponseText)],
      [kind |-> "object",        has |-> TRUE,  value |-> Str(<< >>)],
      [kind |-> "object",        has |-> TRUE,  value |-> None],
      [kind |-> "object",        has |-> TRUE,  value |-> Num] }

NoHttp == [kind |-> "no_call", has |-> FALSE, value |-> None]

NoResponseReceived == Str(<<"No response received">>)

\* The result of one call: the value returned, whether an exception left
\* the function instead, and what it printed.
Returned(v, printed) == [raised |-> FALSE, value |-> v, out |-> printed]
Raised == [raised |-> TRUE, value |-> None, out |-> << >>]
NoCall == [raised |-> FALSE, value |-> None, out |-> << >>]

\* grok_api_call.  requests.RequestException covers the connection
\* failure, the HTTPError of raise_for_status and requests' JSONDecodeError;
\* the AttributeError of .get on a JSON value that is no dict is not caught.
grok_api_call(prompt, o) ==
    CASE o.kind \in {"network_error", "http_error", "bad_json"} ->
            Returned(None, <<"api_error">>)
      [] o.kind = "non_object" -> Raised
      [] o.kind = "object" /\ o.has -> Returned(o.value, << >>)
      [] o.kind = "object" /\ ~o.has -> Returned(NoResponseReceived, << >>)

(***************************************************************************)
(* The filesystem.                                                         *)
(***************************************************************************)
Paths == {"a.txt", "output.csv"}

OldText == <<"o", "l", "d">>
Absent == [exists |-> FALSE, content |-> << >>]
File(c) == [exists |-> TRUE, content |-> c]

\* os.path.exists
ExistsAlways(fs, p) == TRUE
Exists(fs, p) == p \in Paths /\ fs[p].exists

\* open(p, 'r') and f.read()
ReadFile(fs, p, readOk) ==
    IF p \in Paths /\ fs[p].exists /\ readOk
    THEN [raised |-> FALSE, content |-> fs[p].content]
    ELSE [raised |-> TRUE, content |-> << >>]

\* with open(p, 'w') as f: f.write(v).  open raises on None, on the empty
\* path and on an OS error; once it has opened the file is truncated, and
\* write raises on a value that is no str.
WriteFile(fs, p, v, writeOk) ==
    IF ~p.given \/ p.name \notin Paths \/ ~writeOk
    THEN [fs |-> fs, raised |-> TRUE, opened |-> << >>, writes |-> << >>]
    ELSE IF v.t # "str"
    THEN [fs |-> [fs EXCEPT ![p.name] = File(<< >>)], raised |-> TRUE,
          opened |-> <<p.name>>, writes |-> << >>]
    ELSE [fs |-> [fs EXCEPT ![p.name] = File(v.s)], raised |-> FALSE,
          opened |-> <<p.name>>,
          writes |-> <<[path |-> p.name, content |-> v.s]>>]

(***************************************************************************)
(* What a handler run did: its arguments, the round trip it was given, the *)
(* prompts it dispatched, the dispatcher's result, the files it opened for *)
(* writing and wrote, the console messages it printed, the filesystem it   *)
(* started from, and whether an exception left the handler.                *)
(***************************************************************************)
NoOp(fs) ==
    [cmd |-> "none", path |-> "", output |-> NoPath, text |-> << >>,
     step |-> 0, http |-> NoHttp, calls |-> << >>, ret |-> NoCall,
     opened |-> << >>, writes |-> << >>, out |-> << >>, pre |-> fs,
     raised |-> FALSE]

\* The part of a handler after a dispatcher call that returned a truthy
\* response and goes on to write it to `target`: the write, then `okMsg`,
\* or `errMsg` from the handler's except clause.
WriteResponse(op, fs, target, call, writeOk, okMsg, errMsg) ==
    LET w == WriteFile(fs, target, call.value, writeOk)
    IN  [fs |-> w.fs,
         failed |-> w.raised,
         last |-> [op EXCEPT !.opened = w.opened, !.writes = w.writes,
                             !.out = call.out \o
                                     (IF w.raised THEN <<errMsg>> ELSE <<okMsg>>)]]

EditPrompt(prompt, content) ==
    <<"Edit the following code/content: ">> \o prompt \o <<"\n\nContent:\n">> \o content

edit_file(fs, filename, prompt, output, o, readOk, writeOk) ==
    LET op == [NoOp(fs) EXCEPT !.cmd = "edit_file", !.path = filename,
                               !.output = output, !.text = prompt]
        rd == ReadFile(fs, filename, readOk)
        full_prompt == EditPrompt(prompt, rd.content)
        call == grok_api_call(full_prompt, o)
        called == [op EXCEPT !.http = o, !.calls = <<full_prompt>>, !.ret = call]
    IN  IF ~Exists(fs, filename)
        THEN [fs |-> fs, last |-> [op EXCEPT !.out = <<"file_missing">>]]
        ELSE IF rd.raised
        THEN [fs |-> fs, last |-> [op EXCEPT !.out = <<"edit_error">>]]
        ELSE IF call.raised
        THEN [fs |-> fs, last |-> [called EXCEPT !.out = <<"edit_error">>]]
        ELSE IF Truthy(call.value)
        THEN LET r == WriteResponse(called, fs, Path(OrElse(output, filename)),
                                    call, writeOk, "edit_saved", "edit_error")
             IN  [fs |-> r.fs, last |-> r.last]
        ELSE [fs |-> fs, last |-> [called EXCEPT !.out = call.out]]

create_file(fs, filename, content, writeOk) ==
    LET op == [NoOp(fs) EXCEPT !.cmd = "create_file", !.path = filename,
                               !.text = content]
        w == WriteFile(fs, Path(filename), Str(content), writeOk)
    IN  [fs |-> w.fs,
         last |-> [op EXCEPT !.opened = w.opened, !.writes = w.writes,
                             !.out = IF w.raised THEN <<"create_error">>
                                                 ELSE <<"created">>]]

\* pd.read_csv raises EmptyDataError on a file with no columns; df.to_string()
\* renders the parsed table, here its text between two markers.
ReadCsv(fs, p, readOk) ==
    IF p \in Paths /\ fs[p].exists /\ readOk /\ fs[p].content # << >>
    THEN [raised |-> FALSE, df |-> fs[p].content]
    ELSE [raised |-> TRUE, df |-> << >>]
DfToString(df) == <<"<table>">> \o df \o <<"</table>">>

AnalyzePrompt(prompt, data_summary) ==
    <<"Analyze this data: ">> \o prompt \o <<"\n\nData:\n">> \o data_summary

analyze_data(fs, data_file, prompt, output, o, readOk, writeOk) ==
    LET op == [NoOp(fs) EXCEPT !.cmd = "analyze_data", !.path = data_file,
                               !.output = output, !.text = prompt]
        rd == ReadCsv(fs, data_file, readOk)
        full_prompt == AnalyzePrompt(prompt, DfToString(rd.df))
        call == grok_api_call(full_prompt, o)
        called == [op EXCEPT !.http = o, !.calls = <<full_prompt>>, !.ret = call]
    IN  IF ~Exists(fs, data_file)
        THEN [fs |-> fs, last |-> [op EXCEPT !.out = <<"file_missing">>]]
        ELSE IF rd.raised
        THEN [fs |-> fs, last |-> [op EXCEPT !.out = <<"analysis_error">>]]
        ELSE IF call.raised
        THEN [fs |-> fs, last |-> [called EXCEPT !.out = <<"analysis_error">>]]
        ELSE IF Truthy(call.value)
        THEN LET r == WriteResponse(called, fs, output, call, writeOk,
                                    "analysis_saved", "analysis_error")
             IN  [fs |-> r.fs, last |-> r.last]
        ELSE [fs |-> fs, last |-> [called EXCEPT !.out = call.out]]

NlpPrompt(text, task) ==
    <<"Perform NLP task: ">> \o task \o <<"\n\nText: ">> \o text

\* nlp has no try: an exception of the dispatcher leaves the handler.
nlp(fs, text, task, o) ==
    LET full_prompt == NlpPrompt(text, task)
        call == grok_api_call(full_prompt, o)
    IN  [NoOp(fs) EXCEPT !.cmd = "nlp", !.text = text, !.http = o,
                         !.calls = <<full_prompt>>, !.ret = call,
                         !.raised = call.raised,
                         !.out = IF ~call.raised /\ Truthy(call.value)
                                 THEN call.out \o <<"nlp_panel">>
                                 ELSE call.out]

\* One iteration of chat's while loop on the line Prompt.ask returned.
chat_line(fs, prompt, o) ==
    LET op == [NoOp(fs) EXCEPT !.cmd = "chat", !.text = prompt]
        call == grok_api_call(prompt, o)
    IN  IF Lower(prompt) = ExitWord
        THEN [op EXCEPT !.out = <<"goodbye">>]
        ELSE [op EXCEPT !.http = o, !.calls = <<prompt>>, !.ret = call,
                        !.raised = call.raised,
                        !.out = IF ~call.raised /\ Truthy(call.value)
                                THEN call.out \o <<"chat_panel">>
                                ELSE call.out]

(***************************************************************************)
(* automate_workflow.                                                      *)
(***************************************************************************)
\* A step of the workflow file: a dict whose .get('prompt'), .get('action')
\* and .get('output_file') give a value or None, or an entry that is no dict.
Step(prompt, action, output_file) ==
    [isDict |-> TRUE, prompt |-> prompt, action |-> action, output_file |-> output_file]
NotADict == [isDict |-> FALSE, prompt |-> None, action |-> None, output_file |-> NoPath]

Save == Str(<<"save">>)
Show == Str(<<"print">>)
Bogus == Str(<<"bogus">>)

StepPool ==
    { Step(Str(<<"p">>), Save, Path("a.txt")),
      Step(Str(<<"p">>), Save, NoPath),
      Step(Str(<<"q">>), Show, NoPath),
      Step(Str(<<"p">>), Bogus, NoPath),
      Step(None, Show, NoPath),
      Step(Str(<< >>), Save, Path("output.csv")),
      Step(Str(<<"p">>), None, NoPath),
      NotADict }

SeqsUpTo(S, n) == UNION { [1..k -> S] : k \in 0..n }

\* What json.load can yield for a workflow file: not JSON at all, JSON that
\* is no object, or an object whose 'steps' (default []) is a list of steps.
WorkflowDocs ==
    { [kind |-> "invalid", steps |-> << >>], [kind |-> "non_object", steps |-> << >>] }
    \cup { [kind |-> "object", steps |-> s] : s \in SeqsUpTo(StepPool, MaxSteps) }

\* The body of the for loop on the k-th step; `aborted` when an exception
\* reached the except clause around the loop.
workflow_step(fs, step, k, o, writeOk) ==
    LET op == [NoOp(fs) EXCEPT !.cmd = "automate_workflow", !.step = k]
        call == grok_api_call(step.prompt.s, o)
        called == [op EXCEPT !.http = o, !.calls = <<step.prompt.s>>, !.ret = call,
                             !.text = step.prompt.s]
    IN  IF ~step.isDict
        THEN [fs |-> fs, aborted |-> TRUE,
              last |-> [op EXCEPT !.out = <<"workflow_error">>]]
        ELSE IF ~Truthy(step.prompt) \/ ~Truthy(step.action)
        THEN [fs |-> fs, aborted |-> FALSE,
              last |-> [op EXCEPT !.out = <<"invalid_step">>]]
        ELSE IF call.raised
        THEN [fs |-> fs, aborted |-> TRUE,
              last |-> [called EXCEPT !.out = <<"workflow_error">>]]
        ELSE IF ~Truthy(call.value)
        THEN [fs |-> fs, aborted |-> FALSE, last |-> [called EXCEPT !.out = call.out]]
        ELSE IF step.action = Save
        THEN LET r == WriteResponse([called EXCEPT !.output = step.output_file], fs,
                                    step.output_file, call, writeOk,
                                    "workflow_saved", "workflow_error")
             IN  [fs |-> r.fs, aborted |-> r.failed, last |-> r.last]
        ELSE IF step.action = Show
        THEN [fs |-> fs, aborted |-> FALSE,
              last |-> [called EXCEPT !.out = call.out \o <<"workflow_panel">>]]
        ELSE [fs |-> fs, aborted |-> FALSE,
              last |-> [called EXCEPT !.out = call.out \o <<"unsupported_action">>]]

\* automate_workflow up to the for loop: the existence check, open and
\* json.load (the empty text is no JSON), workflow.get('steps', []).
workflow_load(fs, workflow_file, doc, readOk) ==
    LET op == [NoOp(fs) EXCEPT !.cmd = "automate_workflow", !.path = workflow_file]
        rd == ReadFile(fs, workflow_file, readOk)
    IN  IF ~Exists(fs, workflow_file)
        THEN [loaded |-> FALSE, steps |-> << >>,
              last |-> [op EXCEPT !.out = <<"file_missing">>]]
        ELSE IF rd.raised \/ rd.content = << >> \/ doc.kind # "object"
        THEN [loaded |-> FALSE, steps |-> << >>,
              last |-> [op EXCEPT !.out = <<"workflow_error">>]]
        ELSE [loaded |-> TRUE, steps |-> doc.steps, last |-> op]

(***************************************************************************)
(* Inputs.                                                                 *)
(***************************************************************************)
Platforms == {"Linux", "Emscripten"}
FileStates == {Absent, File(OldText), File(<< >>)}
Prompts == {<< >>, <<"p">>}
OutputOptions == {NoPath, Path(""), Path("a.txt"), Path("output.csv")}
AnalyzeOutputs == {Path("output.csv"), Path("a.txt"), Path("")}
ChatLines ==
    { << >>, <<"h", "i">>, <<"e", "x", "i", "t">>, <<"E", "X", "I", "T">>,
      <<"E", "x", "i", "t">>, <<"e", "x", "i", "t", " ">> }

(***************************************************************************)
(* The state machine.                                                      *)
(***************************************************************************)
Init ==
    /\ pc = "start"
    /\ platform \in Platforms
    /\ isMain \in BOOLEAN
    /\ hasKey \in BOOLEAN
    /\ bgTask = FALSE
    /\ files \in [Paths -> FileStates]
    /\ lines = 0
    /\ steps = << >>
    /\ i = 0
    /\ last = NoOp(files)

\* The module's top-level code: the credential check, then the platform
\* branch that schedules or runs main_loop, then (as a script) cli().
ModuleLoad ==
    /\ pc = "start"
    /\ IF ~hasKey
       THEN /\ pc' = "exit1"
            /\ last' = [NoOp(files) EXCEPT !.cmd = "startup", !.out = <<"key_missing">>]
            /\ UNCHANGED bgTask
       ELSE /\ last' = [NoOp(files) EXCEPT !.cmd = "startup"]
            /\ IF platform = "Emscripten"
               THEN /\ bgTask' = TRUE
                    /\ pc' = IF isMain THEN "cli" ELSE "imported"
               ELSE /\ UNCHANGED bgTask
                    /\ pc' = IF isMain THEN "main_loop" ELSE "imported"
    /\ UNCHANGED <<platform, isMain, hasKey, files, lines, steps, i>>

\* main_loop under asyncio.run: `while True: await asyncio.sleep(0.1)`.
MainLoopSleep ==
    /\ pc = "main_loop"
    /\ pc' = "sleeping"
    /\ UNCHANGED <<platform, isMain, hasKey, bgTask, files, lines, steps, i, last>>

MainLoopWake ==
    /\ pc = "sleeping"
    /\ pc' = "main_loop"
    /\ UNCHANGED <<platform, isMain, hasKey, bgTask, files, lines, steps, i, last>>

\* The importer of the module calls the command group.
ImportedInvoke ==
    /\ pc = "imported"
    /\ pc' = "cli"
    /\ UNCHANGED <<platform, isMain, hasKey, bgTask, files, lines, steps, i, last>>

Chat ==
    /\ pc = "cli"
    /\ pc' = "chat"
    /\ last' = [NoOp(files) EXCEPT !.cmd = "chat_start", !.out = <<"welcome", "usage">>]
    /\ UNCHANGED <<platform, isMain, hasKey, bgTask, files, lines, steps, i>>

ChatLine ==
    /\ pc = "chat"
    /\ lines < MaxLines
    /\ \E prompt \in ChatLines, o \in HttpOutcomes :
         LET r == chat_line(files, prompt, o)
         IN  /\ last' = r
             /\ pc' = IF r.raised THEN "crashed"
                      ELSE IF r.calls = << >> THEN "done" ELSE "chat"
    /\ lines' = lines + 1
    /\ UNCHANGED <<platform, isMain, hasKey, bgTask, files, steps, i>>

EditFile ==
    /\ pc = "cli"
    /\ \E filename \in Paths, prompt \in Prompts, output \in OutputOptions,
          o \in HttpOutcomes, readOk \in BOOLEAN, writeOk \in BOOLEAN :
         LET r == edit_file(files, filename, prompt, output, o, readOk, writeOk)
         IN  files' = r.fs /\ last' = r.last
    /\ pc' = "done"
    /\ UNCHANGED <<platform, isMain, hasKey, bgTask, lines, steps, i>>

CreateFile ==
    /\ pc = "cli"
    /\ \E filename \in Paths \cup {""}, content \in Prompts, writeOk \in BOOLEAN :
         LET r == create_file(files, filename, content, writeOk)
         IN  files' = r.fs /\ last' = r.last
    /\ pc' = "done"
    /\ UNCHANGED <<platform, isMain, hasKey, bgTask, lines, steps, i>>

AnalyzeData ==
    /\ pc = "cli"
    /\ \E data_file \in Paths, prompt \in Prompts, output \in AnalyzeOutputs,
          o \in HttpOutcomes, readOk \in BOOLEAN, writeOk \in BOOLEAN :
         LET r == analyze_data(files, data_file, prompt, output, o, readOk, writeOk)
         IN  files' = r.fs /\ last' = r.last
    /\ pc' = "done"
    /\ UNCHANGED <<platform, isMain, hasKey, bgTask, lines, steps, i>>

Nlp ==
    /\ pc = "cli"
    /\ \E text \in Prompts, task \in Prompts, o \in HttpOutcomes :
         LET r == nlp(files, text, task, o)
         IN  last' = r /\ pc' = IF r.raised THEN "crashed" ELSE "done"
    /\ UNCHANGED <<platform, isMain, hasKey, bgTask, files, lines, steps, i>>

AutomateWorkflow ==
    /\ pc = "cli"
    /\ \E workflow_file \in Paths, doc \in WorkflowDocs, readOk \in BOOLEAN :
         LET r == workflow_load(files, workflow_file, doc, readOk)
         IN  /\ last' = r.last
             /\ steps' = r.steps
             /\ pc' = IF r.loaded /\ r.steps # << >> THEN "workflow" ELSE "done"
    /\ UNCHANGED <<platform, isMain, hasKey, bgTask, files, lines, i>>

WorkflowStep ==
    /\ pc = "workflow"
    /\ i < Len(steps)
    /\ \E o \in HttpOutcomes, writeOk \in BOOLEAN :
         LET r == workflow_step(files, steps[i + 1], i + 1, o, writeOk)
         IN  /\ files' = r.fs
             /\ last' = r.last
             /\ pc' = IF r.aborted \/ i + 1 = Len(steps) THEN "done" ELSE "workflow"
    /\ i' = i + 1
    /\ UNCHANGED <<platform, isMain, hasKey, bgTask, lines, steps>>

Next ==
    \/ ModuleLoad
    \/ MainLoopSleep
    \/ MainLoopWake
    \/ ImportedInvoke
    \/ Chat
    \/ ChatLine
    \/ EditFile
    \/ CreateFile
    \/ AnalyzeData
    \/ Nlp
    \/ AutomateWorkflow
    \/ WorkflowStep

Spec == Init /\ [][Next]_vars

\* The interpreter keeps running the module's code and the event loop keeps
\* running main_loop; the commands wait on the user and get no fairness.
LiveSpec ==
    Spec /\ WF_vars(ModuleLoad) /\ WF_vars(MainLoopSleep) /\ WF_vars(MainLoopWake)

(***************************************************************************)
(* Properties.                                                             *)
(***************************************************************************)
Has(seq, x) == \E k \in 1..Len(seq) : seq[k] = x
Count(seq, x) == Cardinality({k \in 1..Len(seq) : seq[k] = x})

Called == Len(last.calls) > 0
Panels == {"chat_panel", "nlp_panel", "workflow_panel"}
SuccessMessages == {"edit_saved", "analysis_saved", "workflow_saved"} \cup Panels
NoSuccessMessage == \A k \in 1..Len(last.out) : last.out[k] \notin SuccessMessages
NoPanel == \A k \in 1..Len(last.out) : last.out[k] \notin Panels
\* The round trip succeeded with a response field that is a non-empty str,
\* and the dispatcher returned it.
GotText ==
    /\ last.http.kind = "object" /\ last.http.has
    /\ ~last.ret.raised
    /\ last.ret.value.t = "str" /\ last.ret.value.s # << >>

\* C1: whatever the round trip yields, the dispatcher returns without
\* raising; it returns the response field's value when the status is a
\* success and the body is a JSON object with that field, and None for every
\* other outcome.
C1_DispatcherFailsClosed ==
    Called =>
        /\ ~last.ret.raised
        /\ last.ret.value = IF last.http.kind = "object" /\ last.http.has
                            THEN last.http.value
                            ELSE None

\* C2: when the dispatcher call of edit_file, analyze_data or a workflow
\* step returns None, the command or step opens no file for writing, leaves
\* the filesystem as it was, and prints no success message or result panel.
C2_NoWriteOnDispatcherFailure ==
    ( /\ last.cmd \in {"edit_file", "analyze_data", "automate_workflow"}
      /\ Called
      /\ ~last.ret.raised
      /\ last.ret.value = None )
    => /\ last.opened = << >>
       /\ last.writes = << >>
       /\ files = last.pre
       /\ NoSuccessMessage

C2_Witness ==
    /\ last.cmd = "automate_workflow"
    /\ last.step = 2
    /\ steps[2].action = Save
    /\ Called
    /\ last.http.kind = "http_error"
    /\ ~last.ret.raised
    /\ last.ret.value = None

\* C3: edit_file with a successful response: without an output option the
\* source file's content becomes the response; with one, the response is
\* written to the output path and the source file keeps its content.  Read
\* in the claim's favour: the response is a non-empty str, no local I/O error
\* occurred, and the output path given is not the source path itself.
C3_EditFileOutputChoice ==
    ( /\ last.cmd = "edit_file"
      /\ Called
      /\ GotText
      /\ ~Has(last.out, "edit_error")
      /\ last.output.given => last.output.name # last.path )
    => IF ~last.output.given
       THEN files[last.path] = File(last.ret.value.s)
       ELSE /\ last.output.name \in Paths
            /\ files[last.output.name] = File(last.ret.value.s)
            /\ files[last.path] = last.pre[last.path]

\* C4: once automate_workflow has run, every step of the loaded workflow was
\* examined: no failure of a step keeps the steps after it from being
\* processed.  Read in the claim's favour: every step is a JSON object and
\* the dispatcher returned from the latest call.
C4_WorkflowExaminesEveryStep ==
    ( /\ pc = "done"
      /\ last.cmd = "automate_workflow"
      /\ \A k \in 1..Len(steps) : steps[k].isDict
      /\ ~last.ret.raised )
    => i = Len(steps)

\* C5: a workflow step with a prompt and an action: `save` with a successful
\* dispatch writes the response once, to the step's output_file; `print` with
\* a successful dispatch shows one panel and writes nothing; any other action
\* prints a warning, writes nothing and shows no panel.  Read in the claim's
\* favour: a successful dispatch returned a non-empty str, the save step names
\* its output_file and its write met no I/O error, and any console message
\* counts as the warning.
C5_WorkflowStepEffects ==
    ( /\ last.cmd = "automate_workflow"
      /\ last.step >= 1
      /\ steps[last.step].isDict
      /\ steps[last.step].prompt.t = "str" /\ steps[last.step].prompt.s # << >>
      /\ steps[last.step].action.t = "str" /\ steps[last.step].action.s # << >> )
    => LET st == steps[last.step]
       IN  /\ ( /\ st.action = Save
                /\ GotText
                /\ st.output_file.given
                /\ ~Has(last.out, "workflow_error") )
              => last.writes = <<[path |-> st.output_file.name,
                                  content |-> last.ret.value.s]>>
           /\ (st.action = Show /\ GotText)
              => Count(last.out, "workflow_panel") = 1 /\ last.writes = << >>
           /\ (st.action \notin {Save, Show})
              => last.out # << >> /\ last.writes = << >> /\ NoPanel

\* C6: no failure is silent: a chat line that is dispatched, edit_file,
\* analyze_data, nlp or a workflow step that neither writes a file nor shows
\* a result panel prints at least one console message.  (A run an exception
\* leaves is not counted as silent.)
C6_NoSilentFailure ==
    ( /\ \/ last.cmd \in {"edit_file", "analyze_data", "nlp"}
         \/ last.cmd = "chat" /\ Called
         \/ last.cmd = "automate_workflow" /\ last.step >= 1
      /\ last.writes = << >>
      /\ NoPanel
      /\ ~last.raised )
    => last.out # << >>

\* C7: edit_file, analyze_data and automate_workflow on an input path that
\* does not exist print the missing-file error and return: no dispatcher
\* call, no file opened for writing, the filesystem unchanged.
C7_MissingInputFile ==
    ( /\ \/ last.cmd \in {"edit_file", "analyze_data"}
         \/ last.cmd = "automate_workflow" /\ last.step = 0
      /\ ~last.pre[last.path].exists )
    => /\ last.out = <<"file_missing">>
       /\ last.calls = << >>
       /\ last.opened = << >>
       /\ last.writes = << >>
       /\ files = last.pre
       /\ pc = "done"

C7_Witness ==
    /\ last.cmd = "analyze_data"
    /\ ~last.pre[last.path].exists
    /\ \E p \in Paths : last.pre[p].exists
    /\ pc = "done"

\* C8: the chat loop ends exactly on a line that is 'exit' in any letter
\* case, without a dispatcher call for it; on every other line it makes one
\* dispatcher call and awaits input again, whatever the call's outcome.
C8_ChatLeavesOnlyOnExit ==
    last.cmd = "chat" =>
        IF Lower(last.text) = ExitWord
        THEN pc = "done" /\ last.calls = << >>
        ELSE pc = "chat" /\ Len(last.calls) = 1

\* C9: run as a script on a platform other than the browser's, with the
\* credential present, start-up eventually reaches the command group cli().
C9_ScriptReachesCli ==
    (platform # "Emscripten" /\ isMain /\ hasKey) => <>(pc = "cli")

\* C10: every prompt handed to the dispatcher is non-empty.
C10_PromptNonEmpty ==
    \A k \in 1..Len(last.calls) : last.calls[k] # << >>

====
